---------------------------- MODULE Spec2Model ----------------------------
(***************************************************************************)
(* A model of the watsonx / Langflow integration repository:               *)
(*                                                                         *)
(*   - the lifecycle filter is_deprecated_or_withdrawn, in its two         *)
(*     variants (components/utils/list_embeddings.py, which reads the      *)
(*     entry's fields with dict.get, and componets/utils/models.py, which  *)
(*     subscripts them);                                                   *)
(*   - one run of the region comparison tool: the fetch loop over          *)
(*     BASE_URLS, compare_to_reference and the report;                     *)
(*   - the chat-model component's refresh hook update_build_config with    *)
(*     fetch_models (components/llm/watsonx.py).                           *)
(*                                                                         *)
(* Python values are modelled as follows.  A str that the code orders      *)
(* (a date) is a sequence of character codes compared lexicographically,   *)
(* as Python compares str.  A str that the code only sorts within a fixed  *)
(* universe (a model id, a region short code) is a TLA+ string ordered by  *)
(* its place in the lexicographically sorted universe.  A dict with        *)
(* optional keys carries the set of keys it holds.  A dict whose           *)
(* iteration order matters is a sequence of items in insertion order.      *)
(***************************************************************************)
EXTENDS Integers, Sequences, FiniteSets, TLC

VARIABLES
    variant,        \* which script runs: "list_embeddings" or "models"
    TODAY,          \* module constant TODAY / today, fixed at import
    lifecycle,      \* argument of is_deprecated_or_withdrawn (filter runs)
    result,         \* its outcome: "unset", "True", "False" or "KeyError"
    responses,      \* what each region's server answers to the GET
    pc,             \* position of the run
    idx,            \* position of the fetch loop in BASE_URLS
    model_sets,     \* dict region -> set of active model ids, in insertion order
    gets,           \* the requests.get calls issued so far, in order
    errors,         \* regions whose failure was logged
    exc,            \* the exception that ended the run, or "none"
    ref_region,     \* the reference region of the comparison
    counts,         \* rows of print_region_summary
    missing,        \* dict region -> ids of the reference the region lacks
    unique,         \* dict region -> ids the region has beyond the reference
    common,         \* ids present in every region
    model_rows,     \* rows of print_model_regions
    catalog,        \* what each endpoint answers to the component's GET
    build_config,   \* the component's build configuration
    last_call,      \* field name and value of the last update_build_config call
    raised          \* whether that call let an exception out

filterVars == <<lifecycle, result>>
runVars == <<responses, pc, idx, model_sets, gets, errors, exc, ref_region,
             counts, missing, unique, common, model_rows>>
compVars == <<catalog, build_config, last_call, raised>>
vars == <<variant, TODAY, filterVars, runVars, compVars>>

---------------------------------------------------------------------------
(* Bounds of the model.                                                    *)

\* Days the clock and the upstream dates range over: 0 .. MaxDay.
MaxDay == 3
\* Days in a month of the modelled calendar (the low field of a date).
DaysPerMonth == 2
\* Longest lifecycle list fed to the filter on its own.
MaxLifecycle == 2
\* How many of the endpoint options the component is pointed at.
NumUrls == 2

---------------------------------------------------------------------------
(* Dates.                                                                  *)

Days == 0 .. MaxDay

\* datetime.strftime("%Y-%m-%d"): fixed-width fields, most significant
\* first, each field one character code here.
StrfTime(d) == <<d \div DaysPerMonth, d % DaysPerMonth>>

\* The calendar day a formatted date denotes.
DayOf(s) == s[1] * DaysPerMonth + s[2]

Dates == {StrfTime(d) : d \in Days}

\* Python's str <= : lexicographic on character codes, a proper prefix
\* being smaller.
RECURSIVE StrLE(_, _)
StrLE(a, b) ==
    IF a = <<>> THEN TRUE
    ELSE IF b = <<>> THEN FALSE
    ELSE IF Head(a) < Head(b) THEN TRUE
    ELSE IF Head(a) > Head(b) THEN FALSE
    ELSE StrLE(Tail(a), Tail(b))

---------------------------------------------------------------------------
(* Lifecycle entries and the lifecycle filter.                             *)

EventIds == {"available", "deprecated", "withdrawn"}

\* A lifecycle entry: a dict that may lack "id" or "start_date".  A field
\* that is absent holds the filler "" and is never read as a value.
Entry(i, s) == [keys |-> {"id", "start_date"}, id |-> i, start_date |-> s]
EntryNoDate(i) == [keys |-> {"id"}, id |-> i, start_date |-> <<>>]
EntryNoId(s) == [keys |-> {"start_date"}, id |-> "", start_date |-> s]
EntryEmpty == [keys |-> {}, id |-> "", start_date |-> <<>>]

Entries ==
    {Entry(i, s) : i \in EventIds, s \in Dates}
        \cup {EntryNoDate(i) : i \in EventIds}
        \cup {EntryNoId(s) : s \in Dates}
        \cup {EntryEmpty}

Complete(e) == e.keys = {"id", "start_date"}

SeqsUpTo(S, n) == UNION {[1 .. k -> S] : k \in 0 .. n}

\* FilterGet with the comparison made strict: an entry dated today no
\* longer excludes the model.
RECURSIVE FilterGetStrict(_, _)
FilterGetStrict(lc, today) ==
    IF lc = <<>> THEN "False"
    ELSE LET entry == Head(lc)
             sd == IF "start_date" \in entry.keys THEN entry.start_date ELSE <<>>
         IN  IF /\ "id" \in entry.keys
                /\ entry.id \in {"deprecated", "withdrawn"}
                /\ ~StrLE(today, sd)
             THEN "True"
             ELSE FilterGetStrict(Tail(lc), today)

\* list_embeddings.py: entry.get("id") in {...} and
\*                     entry.get("start_date", "") <= TODAY
RECURSIVE FilterGet(_, _)
FilterGet(lc, today) ==
    IF lc = <<>> THEN "False"
    ELSE LET entry == Head(lc)
             sd == IF "start_date" \in entry.keys THEN entry.start_date ELSE <<>>
         IN  IF /\ "id" \in entry.keys
                /\ entry.id \in {"deprecated", "withdrawn"}
                /\ StrLE(sd, today)
             THEN "True"
             ELSE FilterGet(Tail(lc), today)

\* models.py: entry["id"] in {...} and entry["start_date"] <= today; a
\* subscript of an absent key raises KeyError, and `and` reads start_date
\* only after the id matched.
RECURSIVE FilterSubscript(_, _)
FilterSubscript(lc, today) ==
    IF lc = <<>> THEN "False"
    ELSE LET entry == Head(lc)
         IN  IF "id" \notin entry.keys THEN "KeyError"
             ELSE IF entry.id \notin {"deprecated", "withdrawn"}
                  THEN FilterSubscript(Tail(lc), today)
             ELSE IF "start_date" \notin entry.keys THEN "KeyError"
             ELSE IF StrLE(entry.start_date, today) THEN "True"
             ELSE FilterSubscript(Tail(lc), today)

is_deprecated_or_withdrawn(v, lc, today) ==
    IF v = "list_embeddings" THEN FilterGet(lc, today)
    ELSE FilterSubscript(lc, today)

Variants == {"list_embeddings", "models"}

---------------------------------------------------------------------------
(* Regions, model ids and Python's order on them.                          *)

\* A base URL "https://<label>.ml.cloud.ibm.com", kept split at "//" and
\* at the dots of its host.
Url(label) == [scheme |-> "https:", host |-> <<label, "ml", "cloud", "ibm", "com">>]

BASE_URLS == <<Url("us-south"), Url("eu-de"), Url("jp-tok"), Url("au-syd")>>

Regions == {BASE_URLS[i] : i \in 1 .. Len(BASE_URLS)}

\* url.split("//")[1].split(".")[0]
ShortCode(url) == url.host[1]

\* The model ids the servers may list.
ModelIds == {"m1", "m2"}

\* The strings the code sorts, in Python's (lexicographic) order.
Lex == <<"au-syd", "eu-de", "ibm/granite-13b-instruct-v2",
         "ibm/granite-3-2b-instruct", "ibm/granite-3-8b-instruct",
         "jp-tok", "m1", "m2", "us-south">>

Rank(s) == CHOOSE i \in 1 .. Len(Lex) : Lex[i] = s

\* Python's str < on two strings of the universe.
StrLess(a, b) == Rank(a) < Rank(b)

\* F applied to the value of v: Python evaluates an argument once, before
\* the call.
ByValue(v, F(_)) == CHOOSE r \in {F(x) : x \in {v}} : TRUE

\* Insert x into the ascending list s, after the elements equal to it.
RECURSIVE Insert(_, _)
Insert(x, s) ==
    IF s = <<>> THEN <<x>>
    ELSE IF StrLess(x, Head(s)) THEN <<x>> \o s
    ELSE <<Head(s)>> \o Insert(x, Tail(s))

\* sorted(list): ascending, duplicates kept.
RECURSIVE Sorted(_)
Sorted(s) ==
    IF s = <<>> THEN <<>>
    ELSE ByValue(Sorted(SubSeq(s, 1, Len(s) - 1)), LAMBDA done : Insert(s[Len(s)], done))

\* The elements of a set in the order an iteration meets them; the order
\* of a Python set is unspecified, one order is taken.
RECURSIVE Iterate(_)
Iterate(S) ==
    IF S = {} THEN <<>>
    ELSE LET x == CHOOSE y \in S : TRUE IN <<x>> \o Iterate(S \ {x})

\* sorted(set)
SortedSet(S) == ByValue(Iterate(S), LAMBDA s : Sorted(s))

Range(s) == {s[i] : i \in 1 .. Len(s)}

---------------------------------------------------------------------------
(* Dicts in insertion order: sequences of items [key, val].                *)

Item(k, v) == [key |-> k, val |-> v]

Keys(d) == {d[i].key : i \in 1 .. Len(d)}

\* d.get(k, default)
DictGet(d, k, default) ==
    IF k \in Keys(d) THEN (d[CHOOSE i \in 1 .. Len(d) : d[i].key = k]).val
    ELSE default

\* d[k] = v
DictSet(d, k, v) ==
    IF k \in Keys(d)
    THEN [i \in 1 .. Len(d) |-> IF d[i].key = k THEN Item(k, v) ELSE d[i]]
    ELSE Append(d, Item(k, v))

---------------------------------------------------------------------------
(* The servers' answers.                                                   *)

\* An element of "resources": a dict that may lack "model_id" or
\* "lifecycle".
Model(id, lc) == [keys |-> {"model_id", "lifecycle"}, model_id |-> id, lifecycle |-> lc]
ModelNoLifecycle(id) == [keys |-> {"model_id"}, model_id |-> id, lifecycle |-> <<>>]
ModelNoId(lc) == [keys |-> {"lifecycle"}, model_id |-> "", lifecycle |-> lc]

\* The evaluation date of a run, and dates before and after it.
RunDay == 1
Past == StrfTime(RunDay - 1)
Now == StrfTime(RunDay)
Future == StrfTime(RunDay + 1)

\* A 2xx answer whose body decodes to an object.
Body(rs) == [kind |-> "ok", keys |-> {"resources"}, resources |-> rs]
BodyNoResources == [kind |-> "ok", keys |-> {}, resources |-> <<>>]
\* Any other outcome of the GET.
Failure(k) == [kind |-> k, keys |-> {}, resources |-> <<>>]

\* requests.RequestException raised by requests.get or raise_for_status.
NetworkFailures == {"timeout", "http_error"}

WellFormedBodies ==
    { BodyNoResources,
      Body(<<ModelNoLifecycle("m1")>>),
      Body(<<ModelNoLifecycle("m1"), Model("m2", <<Entry("available", Past)>>)>>),
      Body(<<Model("m1", <<>>),
             Model("m2", <<Entry("available", Past), Entry("withdrawn", Now)>>)>>),
      Body(<<Model("m1", <<Entry("deprecated", Past)>>),
             Model("m2", <<Entry("deprecated", Future)>>)>>) }

\* Bodies that decode to an object of an unexpected shape.
MisshapenBodies ==
    { Body(<<ModelNoLifecycle("m1"), ModelNoId(<<>>)>>),
      Body(<<Model("m1", <<EntryNoDate("deprecated")>>), ModelNoLifecycle("m2")>>),
      Body(<<Model("m1", <<EntryNoId(Past)>>), ModelNoLifecycle("m2")>>) }

Responses ==
    WellFormedBodies \cup MisshapenBodies
        \cup {Failure(k) : k \in NetworkFailures}
        \cup {Failure("bad_json"), Failure("not_object")}

\* The response is malformed: it is no JSON, or JSON of an unexpected shape.
Malformed(resp) ==
    resp \in MisshapenBodies \/ resp.kind \in {"bad_json", "not_object"}

---------------------------------------------------------------------------
(* The body of the try block of the fetch loop.                            *)

Active(set) == [status |-> "ok", active |-> set]
Raised(e) == [status |-> e, active |-> {}]

\* { m["model_id"] for m in resources
\*   if not is_deprecated_or_withdrawn(m.get("lifecycle", [])) }
\* evaluated element by element; the first exception ends it.
RECURSIVE Comprehension(_, _, _, _)
Comprehension(v, rs, today, acc) ==
    IF rs = <<>> THEN Active(acc)
    ELSE LET m == Head(rs)
             lc == IF "lifecycle" \in m.keys THEN m.lifecycle ELSE <<>>
             dep == is_deprecated_or_withdrawn(v, lc, today)
         IN  IF dep = "KeyError" THEN Raised("KeyError")
             ELSE IF dep = "True" THEN Comprehension(v, Tail(rs), today, acc)
             ELSE IF "model_id" \notin m.keys THEN Raised("KeyError")
             ELSE Comprehension(v, Tail(rs), today, acc \cup {m.model_id})

\* requests.get, raise_for_status, resp.json(), .get("resources", []) and
\* the comprehension.
TryBlock(v, resp, today) ==
    IF resp.kind \in NetworkFailures THEN Raised("RequestException")
    ELSE IF resp.kind = "bad_json" THEN Raised("JSONDecodeError")
    ELSE IF resp.kind = "not_object" THEN Raised("AttributeError")
    ELSE Comprehension(v, IF "resources" \in resp.keys THEN resp.resources ELSE <<>>,
                       today, {})

---------------------------------------------------------------------------
(* The chat-model component (watsonx.py).                                  *)

\* Python's None, where a str may stand.
None == "None"

_default_models ==
    <<"ibm/granite-3-2b-instruct", "ibm/granite-3-8b-instruct", "ibm/granite-13b-instruct-v2">>

\* The options of the url dropdown.
UrlOptions ==
    <<"https://us-south.ml.cloud.ibm.com", "https://eu-de.ml.cloud.ibm.com",
      "https://eu-gb.ml.cloud.ibm.com", "https://au-syd.ml.cloud.ibm.com",
      "https://jp-tok.ml.cloud.ibm.com", "https://ca-tor.ml.cloud.ibm.com">>

\* The endpoints the component is pointed at.
ComponentUrls == {UrlOptions[i] : i \in 1 .. NumUrls}

\* What an endpoint may answer.
Answers ==
    { BodyNoResources,
      Body(<<ModelNoLifecycle("m1")>>),
      Body(<<ModelNoLifecycle("m2"), ModelNoLifecycle("m1")>>),
      Body(<<ModelNoLifecycle("m1"), ModelNoId(<<>>)>>),
      Failure("timeout"),
      Failure("http_error"),
      Failure("bad_json"),
      Failure("not_object") }

\* The answer to a GET of f"{base_url}/ml/v1/foundation_model_specs"; a
\* base_url that is no URL (None) makes requests raise MissingSchema, a
\* RequestException.
AnswerOf(base_url) ==
    IF base_url \in DOMAIN catalog THEN catalog[base_url] ELSE Failure("missing_schema")

Returned(ms) == [status |-> "ok", models |-> ms]
Thrown(e) == [status |-> e, models |-> <<>>]

\* [model["model_id"] for model in data.get("resources", [])]
RECURSIVE ModelIdList(_, _)
ModelIdList(rs, acc) ==
    IF rs = <<>> THEN Returned(acc)
    ELSE IF "model_id" \notin Head(rs).keys THEN Thrown("KeyError")
    ELSE ModelIdList(Tail(rs), Append(acc, Head(rs).model_id))

\* The try block of fetch_models.
FetchTry(answer) ==
    IF answer.kind \in NetworkFailures \cup {"missing_schema"} THEN Thrown("RequestException")
    ELSE IF answer.kind = "bad_json" THEN Thrown("ValueError")
    ELSE IF answer.kind = "not_object" THEN Thrown("AttributeError")
    ELSE ByValue(ModelIdList(IF "resources" \in answer.keys THEN answer.resources ELSE <<>>,
                             <<>>),
                 LAMBDA ids : IF ids.status = "ok" THEN Returned(Sorted(ids.models)) ELSE ids)

\* fetch_models without its last clause, `except Exception`.
FetchModelsNarrow(answer) ==
    ByValue(FetchTry(answer),
            LAMBDA out : IF out.status \in {"RequestException", "ValueError"}
                         THEN Returned(_default_models)
                         ELSE out)

\* fetch_models: the try block, then except RequestException, except
\* ValueError, except Exception, each returning the default models.
FetchModels(answer) ==
    ByValue(FetchTry(answer),
            LAMBDA out : IF out.status = "ok" THEN out ELSE Returned(_default_models))

fetch_models(base_url) == FetchModels(AnswerOf(base_url))

\* Component variables of a specification that runs no component.
ComponentIdle ==
    /\ catalog = [u \in ComponentUrls |-> Failure("timeout")]
    /\ build_config = [url |-> [value |-> None],
                       model_name |-> [options |-> <<>>, value |-> None]]
    /\ last_call = <<"none", "">>
    /\ raised = FALSE

---------------------------------------------------------------------------
(* Comparison and report (list_embeddings.py).                             *)

\* print_region_summary: one row [short code, len(models)] per region.
RegionSummary(sets) ==
    [i \in 1 .. Len(sets) |-> <<ShortCode(sets[i].key), Cardinality(sets[i].val)>>]

\* The items of a dict whose key is not k, in order.
Without(d, k) == SelectSeq(d, LAMBDA it : it.key # k)

\* MissingOf with the difference taken the wrong way round.
MissingSwapped(sets, ref_reg) ==
    LET ref == DictGet(sets, ref_reg, {})
        others == Without(sets, ref_reg)
    IN  [i \in 1 .. Len(others) |-> Item(others[i].key, SortedSet(others[i].val \ ref))]

\* { base: sorted(ref - models) for base, models in model_sets.items()
\*   if base != ref_region }
MissingOf(sets, ref_reg) ==
    LET ref == DictGet(sets, ref_reg, {})
        others == Without(sets, ref_reg)
    IN  [i \in 1 .. Len(others) |-> Item(others[i].key, SortedSet(ref \ others[i].val))]

\* UniqueOf with the intersection in place of the difference.
UniqueAsShared(sets, ref_reg) ==
    LET ref == DictGet(sets, ref_reg, {})
        others == Without(sets, ref_reg)
    IN  [i \in 1 .. Len(others) |-> Item(others[i].key, SortedSet(others[i].val \cap ref))]

\* { base: sorted(models - ref) for base, models in model_sets.items()
\*   if base != ref_region }
UniqueOf(sets, ref_reg) ==
    LET ref == DictGet(sets, ref_reg, {})
        others == Without(sets, ref_reg)
    IN  [i \in 1 .. Len(others) |-> Item(others[i].key, SortedSet(others[i].val \ ref))]

\* set.intersection(first, *rest) over the dict's values, in order.
RECURSIVE IntersectFrom(_, _, _)
IntersectFrom(acc, sets, i) ==
    IF i > Len(sets) THEN acc ELSE IntersectFrom(acc \cap sets[i].val, sets, i + 1)

Intersection(sets) == IntersectFrom(sets[1].val, sets, 2)

\* sorted(set.intersection(*model_sets.values()))
CommonOf(sets) == SortedSet(Intersection(sets))

compare_to_reference(sets, ref_reg) ==
    [missing |-> MissingOf(sets, ref_reg),
     unique |-> UniqueOf(sets, ref_reg),
     common |-> CommonOf(sets)]

\* for m in models: model_to_regions.setdefault(m, []).append(short)
RECURSIVE AppendShort(_, _, _)
AppendShort(index, ms, short) ==
    IF ms = <<>> THEN index
    ELSE ByValue(DictSet(index, Head(ms), Append(DictGet(index, Head(ms), <<>>), short)),
                 LAMBDA next : AppendShort(next, Tail(ms), short))

\* for base, models in model_sets.items(): ...
RECURSIVE ModelToRegions(_, _, _)
ModelToRegions(index, sets, i) ==
    IF i > Len(sets) THEN index
    ELSE ByValue(AppendShort(index, Iterate(sets[i].val), ShortCode(sets[i].key)),
                 LAMBDA next : ModelToRegions(next, sets, i + 1))

\* ModelRows without sorted(regions): the codes stay in insertion order.
ModelRowsUnsorted(index) ==
    ByValue(Sorted([i \in 1 .. Len(index) |-> index[i].key]),
            LAMBDA ks : [i \in 1 .. Len(ks) |-> <<ks[i], DictGet(index, ks[i], <<>>)>>])

\* [[model, ", ".join(sorted(regions))]
\*  for model, regions in sorted(model_to_regions.items())]
\* the joined string kept as the list of the codes it joins.
ModelRows(index) ==
    ByValue(Sorted([i \in 1 .. Len(index) |-> index[i].key]),
            LAMBDA ks : [i \in 1 .. Len(ks) |-> <<ks[i], Sorted(DictGet(index, ks[i], <<>>))>>])

print_model_regions(sets) == ByValue(ModelToRegions(<<>>, sets, 1), LAMBDA index : ModelRows(index))

---------------------------------------------------------------------------
(* Comparison loops of models.py: what each loop prints, per region, in    *)
(* the order the loop over the set meets the ids.                          *)

\* us_south_models - models, for every region but the reference.
ModelsMissing(sets, ref_reg) ==
    LET ref == DictGet(sets, ref_reg, {})
        others == Without(sets, ref_reg)
    IN  [i \in 1 .. Len(others) |-> Item(others[i].key, Iterate(ref \ others[i].val))]

\* models - us_south_models, for every region but the reference.
ModelsUnique(sets, ref_reg) ==
    LET ref == DictGet(sets, ref_reg, {})
        others == Without(sets, ref_reg)
    IN  [i \in 1 .. Len(others) |-> Item(others[i].key, Iterate(others[i].val \ ref))]

---------------------------------------------------------------------------
(* One run of the comparison tool.                                         *)

\* Run variables of a specification that runs no comparison.
RunIdle ==
    /\ responses = [r \in Regions |-> Failure("timeout")]
    /\ pc = "idle"
    /\ idx = 1
    /\ model_sets = <<>>
    /\ gets = <<>>
    /\ errors = <<>>
    /\ exc = "none"
    /\ ref_region = BASE_URLS[1]
    /\ counts = <<>>
    /\ missing = <<>>
    /\ unique = <<>>
    /\ common = <<>>
    /\ model_rows = <<>>

Init ==
    /\ variant \in Variants
    /\ TODAY = Now
    /\ lifecycle = <<>>
    /\ result = "unset"
    /\ responses \in [Regions -> Responses]
    /\ pc = "fetch"
    /\ idx = 1
    /\ model_sets = <<>>
    /\ gets = <<>>
    /\ errors = <<>>
    /\ exc = "none"
    /\ ref_region = BASE_URLS[1]
    /\ counts = <<>>
    /\ missing = <<>>
    /\ unique = <<>>
    /\ common = <<>>
    /\ model_rows = <<>>
    /\ ComponentIdle

\* Where the run goes when the fetch loop ends.
AfterFetch == IF variant = "list_embeddings" THEN "summary" ELSE "missing_loop"

Fetching == pc = "fetch" /\ idx <= Len(BASE_URLS)

\* One iteration of the fetch loop that ends in `model_sets[base] = active`.
FetchActive ==
    /\ Fetching
    /\ LET base == BASE_URLS[idx]
           out == TryBlock(variant, responses[base], TODAY)
       IN  /\ out.status = "ok"
           /\ gets' = Append(gets, base)
           /\ model_sets' = DictSet(model_sets, base, out.active)
           /\ idx' = idx + 1
           /\ pc' = IF idx = Len(BASE_URLS) THEN AfterFetch ELSE "fetch"
    /\ UNCHANGED <<compVars, variant, TODAY, filterVars, responses, errors, exc, ref_region,
                   counts, missing, unique, common, model_rows>>

\* FetchFailed without `model_sets[base] = set()`: the failed region gets
\* no key.
FetchFailedNoKey ==
    /\ Fetching
    /\ LET base == BASE_URLS[idx]
           out == TryBlock(variant, responses[base], TODAY)
       IN  /\ out.status \in {"RequestException", "JSONDecodeError"}
           /\ gets' = Append(gets, base)
           /\ errors' = Append(errors, base)
           /\ idx' = idx + 1
           /\ pc' = IF idx = Len(BASE_URLS) THEN AfterFetch ELSE "fetch"
    /\ UNCHANGED <<compVars, variant, TODAY, filterVars, responses, model_sets, exc, ref_region,
                   counts, missing, unique, common, model_rows>>

\* One iteration that ends in the except clause: the failure is logged and
\* the region maps to set().  resp.json() raises a RequestException on an
\* undecodable body where requests defines its own JSONDecodeError.
FetchFailed ==
    /\ Fetching
    /\ LET base == BASE_URLS[idx]
           out == TryBlock(variant, responses[base], TODAY)
       IN  /\ out.status \in {"RequestException", "JSONDecodeError"}
           /\ gets' = Append(gets, base)
           /\ errors' = Append(errors, base)
           /\ model_sets' = DictSet(model_sets, base, {})
           /\ idx' = idx + 1
           /\ pc' = IF idx = Len(BASE_URLS) THEN AfterFetch ELSE "fetch"
    /\ UNCHANGED <<compVars, variant, TODAY, filterVars, responses, exc, ref_region,
                   counts, missing, unique, common, model_rows>>

\* One iteration whose exception no except clause matches: it leaves the
\* loop and the run.  resp.json() raises a plain ValueError on an
\* undecodable body where requests passes on the json module's error.
FetchUncaught ==
    /\ Fetching
    /\ LET base == BASE_URLS[idx]
           out == TryBlock(variant, responses[base], TODAY)
       IN  /\ out.status \in {"KeyError", "AttributeError", "JSONDecodeError"}
           /\ gets' = Append(gets, base)
           /\ exc' = out.status
           /\ pc' = "aborted"
    /\ UNCHANGED <<compVars, variant, TODAY, filterVars, responses, idx, model_sets, errors,
                   ref_region, counts, missing, unique, common, model_rows>>

\* main: print_region_summary(model_sets)
Summary ==
    /\ pc = "summary"
    /\ counts' = RegionSummary(model_sets)
    /\ pc' = "compare"
    /\ UNCHANGED <<compVars, variant, TODAY, filterVars, responses, idx, model_sets, gets,
                   errors, exc, ref_region, missing, unique, common, model_rows>>

\* main: missing, unique, common = compare_to_reference(model_sets, ref)
Compare ==
    /\ pc = "compare"
    /\ LET r == compare_to_reference(model_sets, ref_region)
       IN  /\ missing' = r.missing
           /\ unique' = r.unique
           /\ common' = r.common
    /\ pc' = "report"
    /\ UNCHANGED <<compVars, variant, TODAY, filterVars, responses, idx, model_sets, gets,
                   errors, exc, ref_region, counts, model_rows>>

\* main: the three lists are printed, then print_model_regions(model_sets).
Report ==
    /\ pc = "report"
    /\ model_rows' = print_model_regions(model_sets)
    /\ pc' = "done"
    /\ UNCHANGED <<compVars, variant, TODAY, filterVars, responses, idx, model_sets, gets,
                   errors, exc, ref_region, counts, missing, unique, common>>

\* models.py: the loop printing what each region lacks.
MissingLoop ==
    /\ pc = "missing_loop"
    /\ missing' = ModelsMissing(model_sets, ref_region)
    /\ pc' = "unique_loop"
    /\ UNCHANGED <<compVars, variant, TODAY, filterVars, responses, idx, model_sets, gets,
                   errors, exc, ref_region, counts, unique, common, model_rows>>

\* models.py: the loop printing what each region has beyond the reference.
UniqueLoop ==
    /\ pc = "unique_loop"
    /\ unique' = ModelsUnique(model_sets, ref_region)
    /\ pc' = "common"
    /\ UNCHANGED <<compVars, variant, TODAY, filterVars, responses, idx, model_sets, gets,
                   errors, exc, ref_region, counts, missing, common, model_rows>>

\* models.py: common_models = set.intersection(*model_sets.values()), and
\* the loop printing it.
CommonModels ==
    /\ pc = "common"
    /\ common' = Iterate(Intersection(model_sets))
    /\ pc' = "done"
    /\ UNCHANGED <<compVars, variant, TODAY, filterVars, responses, idx, model_sets, gets,
                   errors, exc, ref_region, counts, missing, unique, model_rows>>

Next ==
    \/ FetchActive
    \/ FetchFailed
    \/ FetchUncaught
    \/ Summary
    \/ Compare
    \/ Report
    \/ MissingLoop
    \/ UniqueLoop
    \/ CommonModels

Spec == Init /\ [][Next]_vars

\* The interpreter runs the script to its end: a step that can be taken is taken.
FairSpec == Spec /\ WF_vars(Next)

---------------------------------------------------------------------------
(* Properties of a run.                                                    *)

\* The lifecycle excludes a model on the day `today`: some entry marks it
\* deprecated or withdrawn on or before that day.
ExcludedOn(lc, today) ==
    \E i \in 1 .. Len(lc) :
        /\ lc[i].id \in {"deprecated", "withdrawn"}
        /\ DayOf(lc[i].start_date) <= DayOf(today)

\* The active set of a well-formed answer, as the data model defines it.
ExpectedActive(resp, today) ==
    {m.model_id : m \in {x \in Range(resp.resources) : ~ExcludedOn(x.lifecycle, today)}}

\* The regions whose fetch ends in a network failure.
FailedRegions == {r \in Regions : responses[r].kind \in NetworkFailures}

\* Every region either fails on the network or answers well-formed.
NoMalformed == \A r \in Regions : ~Malformed(responses[r])

FetchPhaseOver == pc \notin {"fetch", "aborted"}

\* Where no answer is malformed the run has not aborted, every region
\* fetched so far maps to the empty set if it failed on the network and to
\* the active set of its own answer otherwise, after the fetch phase every
\* configured region has a key, and a failed region is counted 0.
C2_Isolated ==
    NoMalformed =>
        /\ pc # "aborted"
        /\ \A i \in 1 .. Len(model_sets) :
               model_sets[i].val =
                   IF model_sets[i].key \in FailedRegions THEN {}
                   ELSE ExpectedActive(responses[model_sets[i].key], TODAY)
        /\ FetchPhaseOver => Keys(model_sets) = Regions /\ Len(model_sets) = Len(BASE_URLS)
        /\ (variant = "list_embeddings" /\ pc \in {"compare", "report", "done"}) =>
               \A r \in FailedRegions : <<ShortCode(r), 0>> \in Range(counts)

\* C2: whichever regions fail on the network, after the fetch phase every
\* configured region has a key, a failed region maps to the empty set and
\* is counted 0, every other region maps to the active set of its own
\* answer, and the run goes on through comparison and report to its end.
C2_NetworkFailureIsolated ==
    /\ []C2_Isolated
    /\ NoMalformed ~> pc = "done"

\* A finished run in which some but not all regions failed on the network
\* and a region that answered has active models.
C2_Witness ==
    /\ pc = "done"
    /\ NoMalformed
    /\ FailedRegions # {}
    /\ \E r \in Regions \ FailedRegions : DictGet(model_sets, r, {}) # {}
    /\ \E r \in FailedRegions : DictGet(model_sets, r, {"m1"}) = {}

\* C3: a region whose answer is malformed maps to the empty set, its
\* failure is reported, and the run goes on.
C3_MalformedIsolated ==
    \A i \in 1 .. Len(gets) :
        Malformed(responses[gets[i]]) =>
            /\ pc # "aborted"
            /\ DictGet(model_sets, gets[i], {"m1"}) = {}
            /\ gets[i] \in Range(errors)

\* gets is BASE_URLS up to the loop's position: one GET per region, in
\* configured order, none repeated.
GetsInOrder ==
    /\ Len(gets) <= Len(BASE_URLS)
    /\ \A i \in 1 .. Len(gets) : gets[i] = BASE_URLS[i]

\* C7: in a run every configured region receives exactly one GET, in
\* configured order, a failed region is not tried again, and the
\* comparison starts only when every region was fetched.
C7_OneGetPerRegion ==
    /\ GetsInOrder
    /\ pc \notin {"fetch", "aborted"} => gets = BASE_URLS
    /\ pc \in {"done", "aborted"} => gets = BASE_URLS

\* What the run holds for the i-th region it fetched is what one iteration
\* of variant v's fetch loop leaves for that region's answer: the active
\* set under the region's key, the empty set after a network failure, or
\* the run ended by the exception the try block raised.  An undecodable
\* body is left out: both variants treat it alike.
FetchedAs(v, i) ==
    LET base == gets[i]
        out == TryBlock(v, responses[base], TODAY)
    IN  CASE out.status = "ok" ->
                 base \in Keys(model_sets) /\ DictGet(model_sets, base, {}) = out.active
          [] out.status = "RequestException" ->
                 base \in Keys(model_sets) /\ DictGet(model_sets, base, {"m1"}) = {}
          [] out.status = "JSONDecodeError" -> TRUE
          [] OTHER -> pc = "aborted" /\ exc = out.status

\* C11: list_embeddings.py and models.py compute the same active set for
\* every region: whatever a region answers, lifecycle entries without id
\* or start_date included, what a run of either script holds for a fetched
\* region is what the other script's filter and fetch loop compute for it.
C11_VariantsAgree ==
    \A i \in 1 .. Len(gets) : \A v \in Variants : FetchedAs(v, i)

---------------------------------------------------------------------------
(* compare_to_reference and print_model_regions on their own: any mapping  *)
(* of regions to sets, in any insertion order, against any reference.      *)

\* The dicts over a non-empty set of regions, in every insertion order.
RegionDicts ==
    LET items == {Item(r, S) : r \in Regions, S \in SUBSET ModelIds}
    IN  UNION { {d \in [1 .. k -> items] :
                    \A i, j \in 1 .. k : i # j => d[i].key # d[j].key}
                : k \in 1 .. Len(BASE_URLS) }

ReconcileInit ==
    /\ variant = "list_embeddings"
    /\ TODAY = Now
    /\ lifecycle = <<>>
    /\ result = "unset"
    /\ responses = [r \in Regions |-> Failure("timeout")]
    /\ pc = "compare"
    /\ idx = 1
    /\ model_sets \in RegionDicts
    /\ gets = <<>>
    /\ errors = <<>>
    /\ exc = "none"
    /\ ref_region \in Regions
    /\ counts = <<>>
    /\ missing = <<>>
    /\ unique = <<>>
    /\ common = <<>>
    /\ model_rows = <<>>
    /\ ComponentIdle

ReconcileNext == Compare \/ Report

SpecReconcile == ReconcileInit /\ [][ReconcileNext]_vars

Compared == pc \in {"report", "done"}

\* The list is strictly ascending in Python's order: sorted, no duplicate.
Ascending(s) == \A i, j \in 1 .. Len(s) : i < j => StrLess(s[i], s[j])

\* C4: with the reference a key of the mapping, compare_to_reference gives
\* one missing and one unique entry for every region but the reference,
\* none for the reference; missing[r] is what the reference has and r
\* lacks, unique[r] what r has and the reference lacks, each completing
\* the shared part to the whole set, each disjoint from the other side,
\* each list sorted ascending without duplicates.
C4_DisjointComplementary ==
    (Compared /\ ref_region \in Keys(model_sets)) =>
        LET ref == DictGet(model_sets, ref_region, {})
        IN  /\ Len(missing) = Len(model_sets) - 1
            /\ Len(unique) = Len(model_sets) - 1
            /\ Keys(missing) = Keys(model_sets) \ {ref_region}
            /\ Keys(unique) = Keys(model_sets) \ {ref_region}
            /\ \A r \in Keys(model_sets) \ {ref_region} :
                   LET set == DictGet(model_sets, r, {})
                       mis == DictGet(missing, r, <<>>)
                       uni == DictGet(unique, r, <<>>)
                   IN  /\ ref = (ref \cap set) \cup Range(mis)
                       /\ set = (ref \cap set) \cup Range(uni)
                       /\ Range(mis) \cap set = {}
                       /\ Range(uni) \cap ref = {}
                       /\ Ascending(mis)
                       /\ Ascending(uni)

\* A comparison of three regions or more in which a region both lacks an
\* id of the reference and has an id the reference lacks.
C4_Witness ==
    /\ Compared
    /\ ref_region \in Keys(model_sets)
    /\ Len(model_sets) >= 3
    /\ \E r \in Keys(missing) :
           DictGet(missing, r, <<>>) # <<>> /\ DictGet(unique, r, <<>>) # <<>>

\* The ids present in every set of the mapping.
InEvery(sets) == {m \in ModelIds : \A i \in 1 .. Len(sets) : m \in sets[i].val}

\* The short codes of the regions whose set holds m.
CodesOf(sets, m) == {ShortCode(sets[i].key) : i \in {j \in 1 .. Len(sets) : m \in sets[j].val}}

\* C5: whatever the order in which the regions are iterated, the
\* intersection is the sorted list of the ids present in every set, and
\* the model -> regions index has one row per id that appears in some set,
\* in ascending order of id, holding the sorted short codes of exactly the
\* regions whose set contains the id.
C5_OrderIndependent ==
    /\ Compared => Range(common) = InEvery(model_sets) /\ Ascending(common)
    /\ pc = "done" =>
           /\ Ascending([i \in 1 .. Len(model_rows) |-> model_rows[i][1]])
           /\ {model_rows[i][1] : i \in 1 .. Len(model_rows)}
                  = UNION {model_sets[i].val : i \in 1 .. Len(model_sets)}
           /\ \A i \in 1 .. Len(model_rows) :
                  /\ Range(model_rows[i][2]) = CodesOf(model_sets, model_rows[i][1])
                  /\ Ascending(model_rows[i][2])

\* Three regions iterated in an order that is not the sorted order of
\* their codes, each holding m1: m1 is common and listed in all three.
C5_Witness ==
    /\ pc = "done"
    /\ Len(model_sets) = 3
    /\ StrLess(ShortCode(model_sets[2].key), ShortCode(model_sets[1].key))
    /\ StrLess(ShortCode(model_sets[1].key), ShortCode(model_sets[3].key))
    /\ \A i \in 1 .. 3 : model_sets[i].val = {"m1"}
    /\ common = <<"m1">>
    /\ Len(model_rows) = 1
    /\ Len(model_rows[1][2]) = 3

\* C6: with a reference that is no key of the mapping the comparison
\* raises nothing and takes the reference set as empty: every region of
\* the mapping gets an empty missing list and its own sorted content as
\* unique list, and the intersection is that of all the sets.
C6_AbsentReference ==
    ref_region \notin Keys(model_sets) =>
        /\ pc = "compare" => ENABLED Compare
        /\ Compared =>
               /\ Len(missing) = Len(model_sets)
               /\ Len(unique) = Len(model_sets)
               /\ \A i \in 1 .. Len(model_sets) :
                      /\ missing[i] = Item(model_sets[i].key, <<>>)
                      /\ unique[i].key = model_sets[i].key
                      /\ Range(unique[i].val) = model_sets[i].val
                      /\ Ascending(unique[i].val)
               /\ Range(common) = InEvery(model_sets)
               /\ Ascending(common)

\* A comparison against an absent reference in which a region has two ids.
C6_Witness ==
    /\ Compared
    /\ ref_region \notin Keys(model_sets)
    /\ Len(model_sets) >= 2
    /\ \E i \in 1 .. Len(unique) : Len(unique[i].val) = 2

---------------------------------------------------------------------------
(* The component in its host: the host edits fields of the build           *)
(* configuration and calls update_build_config.                            *)

ComponentInit ==
    /\ variant = "list_embeddings"
    /\ TODAY = Now
    /\ lifecycle = <<>>
    /\ result = "unset"
    /\ RunIdle
    /\ catalog \in [ComponentUrls -> Answers]
    /\ build_config = [url |-> [value |-> None],
                       model_name |-> [options |-> <<>>, value |-> None]]
    /\ last_call = <<"none", "">>
    /\ raised = FALSE

FieldNames == {"url", "model_name", "api_key"}

\* The values a changed field is reported with: an endpoint, or nothing.
FieldValues == ComponentUrls \cup {""}

\* The host stores an endpoint in the url field of the build configuration.
HostSetsUrl ==
    /\ \E u \in ComponentUrls : build_config' = [build_config EXCEPT !.url.value = u]
    /\ last_call' = <<"none", "">>
    /\ UNCHANGED <<catalog, raised>>
    /\ UNCHANGED <<variant, TODAY, filterVars, runVars>>

\* The user picks a model among the options of the dropdown.
HostSelectsModel ==
    /\ \E m \in Range(build_config.model_name.options) :
           build_config' = [build_config EXCEPT !.model_name.value = m]
    /\ last_call' = <<"none", "">>
    /\ UNCHANGED <<catalog, raised>>
    /\ UNCHANGED <<variant, TODAY, filterVars, runVars>>

\* update_build_config without the replacement of a model name that is
\* not among the new options.
UpdateKeepsValue(field_value, field_name) ==
    /\ last_call' = <<field_name, field_value>>
    /\ raised' = FALSE
    /\ IF field_name = "url" /\ field_value # ""
       THEN LET out == fetch_models(build_config.url.value)
            IN  IF out.status = "ok"
                THEN build_config' = [build_config EXCEPT !.model_name.options = out.models]
                ELSE UNCHANGED build_config
       ELSE UNCHANGED build_config
    /\ UNCHANGED catalog
    /\ UNCHANGED <<variant, TODAY, filterVars, runVars>>

\* update_build_config(build_config, field_value, field_name): the body
\* of its try block runs when fetch_models returns; an exception in it is
\* caught and logged.
update_build_config(field_value, field_name) ==
    /\ last_call' = <<field_name, field_value>>
    /\ raised' = FALSE
    /\ IF field_name = "url" /\ field_value # ""
       THEN LET out == fetch_models(build_config.url.value)
                models == out.models
            IN  IF out.status = "ok"
                THEN build_config' =
                         [build_config EXCEPT
                             !.model_name.options = models,
                             !.model_name.value =
                                 IF @ \notin Range(models) /\ models # <<>>
                                 THEN models[1] ELSE @]
                ELSE UNCHANGED build_config
       ELSE UNCHANGED build_config
    /\ UNCHANGED catalog
    /\ UNCHANGED <<variant, TODAY, filterVars, runVars>>

UpdateBuildConfig ==
    \E field_name \in FieldNames, field_value \in FieldValues :
        update_build_config(field_value, field_name)

ComponentNext == HostSetsUrl \/ HostSelectsModel \/ UpdateBuildConfig

SpecComponent == ComponentInit /\ [][ComponentNext]_vars

---------------------------------------------------------------------------
(* Properties of the component.                                            *)

\* The fetch of the answer succeeds: a 2xx answer that decodes to an
\* object whose resources all carry a model_id.
FetchSucceeds(answer) ==
    /\ answer.kind = "ok"
    /\ \A i \in 1 .. Len(answer.resources) : "model_id" \in answer.resources[i].keys

\* How often x occurs in the list s.
Count(s, x) == Cardinality({i \in 1 .. Len(s) : s[i] = x})

\* opts lists the model ids of the answer's resources, each as often as
\* it occurs there, in ascending order.
ListsModelsOf(opts, answer) ==
    /\ Len(opts) = Len(answer.resources)
    /\ \A i \in 1 .. Len(answer.resources) :
           Count(opts, answer.resources[i].model_id)
               = Cardinality({j \in 1 .. Len(answer.resources) :
                                  answer.resources[j].model_id = answer.resources[i].model_id})
    /\ \A i, j \in 1 .. Len(opts) : i < j => ~StrLess(opts[j], opts[i])

\* The last step was a call of the hook for the url field with a value.
UrlChanged == last_call[1] = "url" /\ last_call[2] # ""

options == build_config.model_name.options

\* C8: after the hook ran for a change of the url field to a non-empty
\* value, the options are the model list of the fetch it made, and the
\* fallback list of three ids if that fetch failed for whatever reason
\* (network, status, undecodable body, unexpected shape); the hook lets no
\* exception out.
C8_RefreshOrFallback ==
    /\ raised = FALSE
    /\ UrlChanged =>
           LET answer == AnswerOf(build_config.url.value)
           IN  IF FetchSucceeds(answer) THEN ListsModelsOf(options, answer)
               ELSE options = _default_models /\ Len(options) = 3

\* The hook just ran against an endpoint whose answer has an unexpected
\* shape and installed the fallback list.
C8_Witness ==
    /\ UrlChanged
    /\ build_config.url.value \in ComponentUrls
    /\ catalog[build_config.url.value] \in
           {Failure("not_object"), Body(<<ModelNoLifecycle("m1"), ModelNoId(<<>>)>>)}
    /\ options = _default_models

\* C9: after the hook ran for a change of the url field, the options are
\* those of the new URL, the value the field was changed to.
C9_OptionsOfNewUrl ==
    UrlChanged => options = fetch_models(last_call[2]).models

\* The original statement of C10: after a call for the url field with a
\* value the selected model is one of the options, kept if it is among
\* the fetched list and replaced by the list's first element otherwise;
\* any other call leaves options and selection as they were.
C10_Original ==
    [][\A fn \in FieldNames, fv \in FieldValues :
          update_build_config(fv, fn) =>
              LET value == build_config.model_name.value
                  value2 == build_config'.model_name.value
                  options2 == build_config'.model_name.options
              IN  IF fn = "url" /\ fv # ""
                  THEN /\ value2 \in Range(options2)
                       /\ value \in Range(options2) => value2 = value
                       /\ value \notin Range(options2) => value2 = options2[1]
                  ELSE options2 = options /\ value2 = value]_vars

\* C10 as amended: the same, where the fetched list is not empty; where it
\* is empty the options become empty and the selection stays as it was.
C10_SelectionAmongOptions ==
    [][\A fn \in FieldNames, fv \in FieldValues :
          update_build_config(fv, fn) =>
              LET value == build_config.model_name.value
                  value2 == build_config'.model_name.value
                  options2 == build_config'.model_name.options
              IN  IF fn = "url" /\ fv # ""
                  THEN IF options2 = <<>> THEN value2 = value
                       ELSE /\ value2 \in Range(options2)
                            /\ value \in Range(options2) => value2 = value
                            /\ value \notin Range(options2) => value2 = options2[1]
                  ELSE options2 = options /\ value2 = value]_vars

\* The hook just ran for the url field and kept a selection that is among
\* the fetched options without being their first.
C10_Witness ==
    /\ UrlChanged
    /\ Len(options) = 2
    /\ build_config.model_name.value = options[2]
    /\ options[1] # options[2]

---------------------------------------------------------------------------
(* The lifecycle filter on its own.                                        *)

FilterInit ==
    /\ variant \in Variants
    /\ TODAY \in Dates
    /\ lifecycle \in SeqsUpTo(Entries, MaxLifecycle)
    /\ result = "unset"
    /\ RunIdle
    /\ ComponentIdle

ApplyFilter ==
    /\ result = "unset"
    /\ result' = is_deprecated_or_withdrawn(variant, lifecycle, TODAY)
    /\ UNCHANGED <<variant, TODAY, lifecycle, runVars, compVars>>

FilterNext == ApplyFilter

SpecFilter == FilterInit /\ [][FilterNext]_vars

---------------------------------------------------------------------------
(* Properties of the lifecycle filter.                                     *)

\* C1: on a lifecycle whose entries carry an id and a start_date the
\* filter returns, and it returns True exactly when some entry is
\* deprecated or withdrawn with a start date on or before the evaluation
\* date; the empty lifecycle is active, an entry dated that very day
\* excludes, one dated later does not.
C1_FilterIff ==
    (result # "unset" /\ \A i \in 1 .. Len(lifecycle) : Complete(lifecycle[i])) =>
        /\ result \in {"True", "False"}
        /\ result = "True" <=> ExcludedOn(lifecycle, TODAY)

\* The filter excluded a model for an entry dated the evaluation date
\* itself, a later-dated entry before it having been passed over.
C1_Witness ==
    /\ result = "True"
    /\ Len(lifecycle) = 2
    /\ lifecycle[1] = Entry("withdrawn", StrfTime(DayOf(TODAY) + 1))
    /\ lifecycle[2] = Entry("deprecated", TODAY)

=============================================================================
